---------------------------- MODULE Spec2Model ----------------------------
(***************************************************************************)
(* Model of the SSE streaming client MCPRunSSEClient                        *)
(* (src/mcp-client-tess-cli/mcp/mcp_sse_client.py): the line parser, the    *)
(* connection worker thread, the event queue with its consumer entry        *)
(* points, and iniciar()/parar().                                           *)
(*                                                                         *)
(* Python strings are sequences of one-character strings, so that          *)
(* splitting, stripping and joining are computed and not assumed.           *)
(* An Optional value is <<>> (None) or <<v>>.                               *)
(* retry_delay is kept in milliseconds (the code keeps seconds as a float:  *)
(* int(value) / 1000); the initial 3 s is retry_delay_default * MsPerSec.   *)
(***************************************************************************)
EXTENDS Integers, Sequences, FiniteSets, TLC

(***************************************************************************)
(* Bounds of the model                                                      *)
(***************************************************************************)
MaxWorkers == 2
MaxLines == 3
MaxStreamLines == 5
MaxConsLines == 4
MaxParseLines == 5
MaxUrlLen == 5
MaxBatch == 2
MaxCallLines == 2

(***************************************************************************)
(* Program constants                                                        *)
(***************************************************************************)
max_retries == 5
retry_delay_default == 3
MsPerSec == 1000

(***************************************************************************)
(* Strings                                                                  *)
(***************************************************************************)
None == <<>>
Some(v) == <<v>>

S_empty == <<>>
S_message == <<"m","e","s","s","a","g","e">>
S_event == <<"e","v","e","n","t">>
S_data == <<"d","a","t","a">>
S_id == <<"i","d">>
S_retry == <<"r","e","t","r","y">>
NL == "\n"

\* The lines a server may send.
L_blank == <<>>
L_data_a == <<"d","a","t","a",":"," ","a">>
L_data_b == <<"d","a","t","a",":","b">>
L_data_sp == <<"d","a","t","a",":"," "," ","a",":","b">>
L_data_nocolon == <<"d","a","t","a">>
L_id_1 == <<"i","d",":"," ","1">>
L_id_2 == <<"i","d",":","2">>
L_id_empty == <<"i","d",":">>
L_event_p == <<"e","v","e","n","t",":"," ","p">>
L_retry_5000 == <<"r","e","t","r","y",":"," ","5","0","0","0">>
L_retry_neg == <<"r","e","t","r","y",":"," ","-","1">>
L_retry_bad == <<"r","e","t","r","y",":"," ","x">>
L_retry_7 == <<"r","e","t","r","y",":","7"," ">>
L_retry_huge == S_retry \o <<":">> \o [i \in 1..312 |-> "9"]
L_comment == <<":","c">>
L_junk == <<"j","u","n","k">>

\* Lines served under Spec (worker/lifecycle interleavings).
CoreLines == {L_blank, L_data_a, L_id_1}

\* Lines served under SpecStream (one worker at a time, never stopped).
StreamLines == {L_blank, L_data_a, L_data_b, L_id_1, L_id_empty}

HasColon(line) == \E i \in 1..Len(line) : line[i] = ":"

FirstColon(line) ==
    CHOOSE i \in 1..Len(line) :
        line[i] = ":" /\ \A j \in 1..(i - 1) : line[j] # ":"

\* value[1:] when value starts with a space
StripOneSpace(value) ==
    IF Len(value) > 0 /\ value[1] = " "
    THEN SubSeq(value, 2, Len(value))
    ELSE value

\* _parse_sse_line: {} for an empty line is rendered as field "" / value "",
\* which is what the caller's .get("field", "") / .get("value", "") reads.
parse_sse_line(line) ==
    IF line = S_empty THEN [field |-> S_empty, value |-> S_empty]
    ELSE IF ~HasColon(line) THEN [field |-> line, value |-> S_empty]
    ELSE LET i == FirstColon(line)
         IN [field |-> SubSeq(line, 1, i - 1),
             value |-> StripOneSpace(SubSeq(line, i + 1, Len(line)))]

\* sys.int_info.default_max_str_digits of CPython 3.11: int() of a longer
\* digit string is a ValueError
int_max_str_digits == 4300

\* int(value): surrounding whitespace is dropped, an optional sign, then
\* one or more decimal digits; anything else is ValueError (None here).
Digits == {"0","1","2","3","4","5","6","7","8","9"}

DigitVal(c) ==
    CASE c = "0" -> 0 [] c = "1" -> 1 [] c = "2" -> 2 [] c = "3" -> 3
      [] c = "4" -> 4 [] c = "5" -> 5 [] c = "6" -> 6 [] c = "7" -> 7
      [] c = "8" -> 8 [] c = "9" -> 9

RECURSIVE LStrip(_)
LStrip(s) == IF Len(s) > 0 /\ s[1] = " " THEN LStrip(Tail(s)) ELSE s

RECURSIVE RStrip(_)
RStrip(s) ==
    IF Len(s) > 0 /\ s[Len(s)] = " "
    THEN RStrip(SubSeq(s, 1, Len(s) - 1))
    ELSE s

RECURSIVE DecVal(_)
DecVal(s) ==
    IF s = <<>> THEN 0
    ELSE 10 * DecVal(SubSeq(s, 1, Len(s) - 1)) + DigitVal(s[Len(s)])

AllDigits(s) == Len(s) > 0 /\ \A i \in 1..Len(s) : s[i] \in Digits

py_int(value) ==
    LET t == RStrip(LStrip(value))
        signed == Len(t) > 0 /\ t[1] \in {"-", "+"}
        body == IF signed THEN Tail(t) ELSE t
    IN IF ~AllDigits(body) \/ Len(body) > int_max_str_digits THEN None
       ELSE IF signed /\ t[1] = "-" THEN Some(0 - DecVal(body))
       ELSE Some(DecVal(body))


(***************************************************************************)
(* Evento and the parser's accumulator (_process_sse_stream)                *)
(***************************************************************************)
Evento(event_type, data, id) ==
    [event_type |-> event_type, data |-> data, id |-> id]

\* event_data = "", event_type = "message", event_id = None
AccInit ==
    [event_data |-> S_empty, event_type |-> S_message, event_id |-> None]

\* A blank line ends an event exactly when event_data is non-empty.
EndsEvent(a, line) == line = S_empty /\ a.event_data # S_empty

\* The Evento built on the blank line.
BuildEvent(a) == Evento(a.event_type, a.event_data, a.event_id)

\* mutant of FeedLine: a blank line resets the accumulator
FeedLineResetsOnBlank(a, line) ==
    IF line = S_empty THEN AccInit
    ELSE LET p == parse_sse_line(line)
         IN IF p.field = S_event THEN [a EXCEPT !.event_type = p.value]
            ELSE IF p.field = S_data
                 THEN [a EXCEPT !.event_data = a.event_data \o p.value \o <<NL>>]
            ELSE IF p.field = S_id THEN [a EXCEPT !.event_id = Some(p.value)]
            ELSE a

\* The accumulator after a line that does not end an event.
FeedLine(a, line) ==
    IF line = S_empty THEN a
    ELSE LET p == parse_sse_line(line)
         IN IF p.field = S_event THEN [a EXCEPT !.event_type = p.value]
            ELSE IF p.field = S_data
                 THEN [a EXCEPT !.event_data = a.event_data \o p.value \o <<NL>>]
            ELSE IF p.field = S_id THEN [a EXCEPT !.event_id = Some(p.value)]
            ELSE a

RECURSIVE StripZeros(_)
StripZeros(s) ==
    IF Len(s) > 1 /\ s[1] = "0" THEN StripZeros(Tail(s)) ELSE s

\* a >= b for two digit strings of the same length
DigitsGE(a, b) ==
    \/ a = b
    \/ \E i \in 1..Len(a) :
          /\ DigitVal(a[i]) > DigitVal(b[i])
          /\ \A j \in 1..(i - 1) : a[j] = b[j]

\* The least n for which n / 1000 is an OverflowError ("integer division
\* result too large for a float"): (2^1024 - 2^970) * 1000, the least
\* quotient that rounds past the largest float; 312 digits.
DivOverflowFrom ==
    <<
       "1","7","9","7","6","9","3","1","3","4","8","6","2",
       "3","1","5","8","0","7","9","3","7","2","8","9","7",
       "1","4","0","5","3","0","3","4","1","5","0","7","9",
       "9","3","4","1","3","2","7","1","0","0","3","7","8",
       "2","6","9","3","6","1","7","3","7","7","8","9","8",
       "0","4","4","4","9","6","8","2","9","2","7","6","4",
       "7","5","0","9","4","6","6","4","9","0","1","7","9",
       "7","7","5","8","7","2","0","7","0","9","6","3","3",
       "0","2","8","6","4","1","6","6","9","2","8","8","7",
       "9","1","0","9","4","6","5","5","5","5","4","7","8",
       "5","1","9","4","0","4","0","2","6","3","0","6","5",
       "7","4","8","8","6","7","1","5","0","5","8","2","0",
       "6","8","1","9","0","8","9","0","2","0","0","0","7",
       "0","8","3","8","3","6","7","6","2","7","3","8","5",
       "4","8","4","5","8","1","7","7","1","1","5","3","1",
       "7","6","4","4","7","5","7","3","0","2","7","0","0",
       "6","9","8","5","5","5","7","1","3","6","6","9","5",
       "9","6","2","2","8","4","2","9","1","4","8","1","9",
       "8","6","0","8","3","4","9","3","6","4","7","5","2",
       "9","2","7","1","9","0","7","4","1","6","8","4","4",
       "4","3","6","5","5","1","0","7","0","4","3","4","2",
       "7","1","1","5","5","9","6","9","9","5","0","8","0",
       "9","3","0","4","2","8","8","0","1","7","7","9","0",
       "4","1","7","4","4","9","7","7","9","2","0","0","0">>

\* int(value) / 1000 raises OverflowError: value is an integer literal
\* whose magnitude is DivOverflowFrom or more
DivRaises(value) ==
    LET t == RStrip(LStrip(value))
        signed == Len(t) > 0 /\ t[1] \in {"-", "+"}
        body == IF signed THEN Tail(t) ELSE t
        sig == StripZeros(body)
    IN /\ AllDigits(body)
       /\ Len(body) <= int_max_str_digits
       /\ \/ Len(sig) > Len(DivOverflowFrom)
          \/ Len(sig) = Len(DivOverflowFrom) /\ DigitsGE(sig, DivOverflowFrom)

\* The retry: line whose division raises; line 163 catches ValueError only
RetryRaises(line) ==
    /\ line # S_empty
    /\ parse_sse_line(line).field = S_retry
    /\ DivRaises(parse_sse_line(line).value)

\* mutant of RetryAfter: a value that is no integer resets the delay
RetryAfterResets(rd, line) ==
    IF line = S_empty THEN rd
    ELSE LET p == parse_sse_line(line)
         IN IF p.field = S_retry
            THEN IF py_int(p.value) # None THEN py_int(p.value)[1]
                 ELSE retry_delay_default * MsPerSec
            ELSE rd

\* retry_delay after a line: int(value) / 1000 seconds, kept in milliseconds.
RetryAfter(rd, line) ==
    IF line = S_empty THEN rd
    ELSE LET p == parse_sse_line(line)
         IN IF p.field = S_retry /\ py_int(p.value) # None
            THEN py_int(p.value)[1]
            ELSE rd

(***************************************************************************)
(* Request headers (_sse_worker)                                            *)
(***************************************************************************)
\* `if self.last_id:` is true for a non-empty string only.
Truthy(opt) == opt # None /\ opt[1] # S_empty

\* mutant: the resumption header is never attached
HeadersWithoutResume(lid) ==
    {<<"Accept", "text/event-stream">>, <<"Cache-Control", "no-cache">>}

Headers(lid) ==
    {<<"Accept", "text/event-stream">>, <<"Cache-Control", "no-cache">>}
        \cup (IF Truthy(lid) THEN {<<"Last-Event-ID", lid[1]>>} ELSE {})

\* Outcomes of requests.get: an exception, or a response with a status.
StatusCodes == {200, 204, 500}
StatusOk(status) == status = 200

(***************************************************************************)
(* The endpoint URL (_validate_url)                                         *)
(***************************************************************************)
\* A URL is a sequence of pieces: a character, or one of the two words the
\* code searches for.
UrlPieces == {"h", ":", "/", "?", "mcp.run", "nonce"}
SchemePieces == {"h", "mcp.run", "nonce"}

U_mcp == <<"h", ":", "/", "/", "mcp.run", "/", "h", "?", "nonce">>

\* str.find for a set of pieces, from position from on: 0 when there is none
FindFrom(u, ps, from) ==
    IF \E i \in from..Len(u) : u[i] \in ps
    THEN CHOOSE i \in from..Len(u) :
            u[i] \in ps /\ \A j \in from..(i - 1) : u[j] \notin ps
    ELSE 0

\* urllib.parse.urlparse, as far as _validate_url reads its result: the
\* scheme is what stands before the first ":" when that is letters only;
\* the netloc is what follows "//" up to the next "/" or "?"; the query is
\* what follows the first "?" after them.
urlparse(u) ==
    LET colon == FindFrom(u, {":"}, 1)
        hasScheme == colon > 1 /\ \A j \in 1..(colon - 1) : u[j] \in SchemePieces
        scheme == IF hasScheme THEN SubSeq(u, 1, colon - 1) ELSE <<>>
        rest == IF hasScheme THEN SubSeq(u, colon + 1, Len(u)) ELSE u
        slashes == Len(rest) >= 2 /\ rest[1] = "/" /\ rest[2] = "/"
        delim == FindFrom(rest, {"/", "?"}, 3)
        netloc == IF ~slashes THEN <<>>
                  ELSE IF delim = 0 THEN SubSeq(rest, 3, Len(rest))
                  ELSE SubSeq(rest, 3, delim - 1)
        tail == IF ~slashes THEN rest
                ELSE IF delim = 0 THEN <<>>
                ELSE SubSeq(rest, delim, Len(rest))
        q == FindFrom(tail, {"?"}, 1)
        query == IF q = 0 THEN <<>> ELSE SubSeq(tail, q + 1, Len(tail))
    IN  [scheme |-> scheme, netloc |-> netloc, query |-> query]

Contains(s, piece) == \E i \in 1..Len(s) : s[i] = piece

\* if not parsed.scheme or not parsed.netloc: raise ValueError
UrlRaises(u) == urlparse(u).scheme = <<>> \/ urlparse(u).netloc = <<>>

\* the two warnings of _validate_url
WarnsNonce(u) ==
    urlparse(u).query = <<>> \/ ~Contains(urlparse(u).query, "nonce")
WarnsHost(u) == ~Contains(urlparse(u).netloc, "mcp.run")

(***************************************************************************)
(* State                                                                    *)
(***************************************************************************)
Workers == 1..MaxWorkers

VARIABLES
    running,        \* self.running
    last_id,        \* self.last_id
    retry_delay,    \* self.retry_delay, in milliseconds
    eventos_queue,  \* self.eventos_queue, FIFO
    unfinished,     \* eventos_queue.unfinished_tasks
    thread,         \* self._thread: None or <<w>>
    pc,             \* pc[w]: position of worker thread w in _sse_worker
    retries,        \* retries[w]: the local of _sse_worker
    acc,            \* acc[w]: locals of the generator _process_sse_stream
    pending,        \* pending[w]: the Evento yielded and not yet handled
    app,            \* the thread calling iniciar()/parar()
    ret,            \* how the last iniciar()/parar() call returned
    cons,           \* the consumer thread: entry point, position, locals
    nlines,         \* lines served so far (bounded by the model)
    lastReq,        \* lastReq[w]: headers of w's latest request
    sawStop,        \* sawStop[w]: w read running == False at least once
    attempts,       \* attempts[w]: requests w has sent
    block,          \* block[w]: lines w has read since its last yield or connect
    lastLine,       \* the line iter_lines() handed over last, None before
    slept,          \* slept[w]: argument of w's latest time.sleep, None before
    lastStatus,     \* status code of the latest response, None before
    url,            \* self.sse_url
    built,          \* how __init__ ended, and its warnings
    foundQueued,    \* queue length met by the latest call that found running False
    delivered       \* Eventos handed to the consumer, in order

wvars == <<pc, retries, acc, pending, lastReq>>
evars == <<block, lastLine, slept, lastStatus, url, built, foundQueued>>
ovars ==
    <<sawStop, attempts, block, lastLine, slept, lastStatus, url, built,
      foundQueued>>
cvars == <<cons, delivered>>
avars == <<app, ret, thread>>
vars == <<running, last_id, retry_delay, eventos_queue, unfinished, thread,
          pc, retries, acc, pending, app, ret, cons, nlines, lastReq,
          sawStop, attempts, delivered, block, lastLine, slept,
          lastStatus, url, built, foundQueued>>

Alive(w) == pc[w] \notin {"unborn", "done", "crashed"}

ConsIdle ==
    [at |-> "idle", eventos |-> <<>>, max |-> 0, wait |-> "none", ret |-> "none"]

\* the consumer thread after a call has returned
Returned(r) == [ConsIdle EXCEPT !.ret = r]

\* __init__, lines 78-86
InitFields ==
    /\ running = FALSE
    /\ last_id = None
    /\ retry_delay = retry_delay_default * MsPerSec
    /\ eventos_queue = <<>>
    /\ unfinished = 0
    /\ thread = None
    /\ pc = [w \in Workers |-> "unborn"]
    /\ retries = [w \in Workers |-> 0]
    /\ acc = [w \in Workers |-> AccInit]
    /\ pending = [w \in Workers |-> None]
    /\ app = "idle"
    /\ ret = "none"
    /\ cons = ConsIdle
    /\ nlines = 0
    /\ lastReq = [w \in Workers |-> {}]
    /\ sawStop = [w \in Workers |-> FALSE]
    /\ attempts = [w \in Workers |-> 0]
    /\ delivered = <<>>
    /\ block = [w \in Workers |-> <<>>]
    /\ lastLine = None
    /\ lastStatus = None
    /\ foundQueued = None
    /\ slept = [w \in Workers |-> None]

\* what __init__ came to: "none" while it runs, then "ok" or "ValueError",
\* and the warnings it has logged
Built(result, warnings) == [result |-> result, warnings |-> warnings]

\* the warnings of _validate_url
Warnings(u) ==
    (IF WarnsNonce(u) THEN {"no nonce"} ELSE {})
        \cup (IF WarnsHost(u) THEN {"not mcp.run"} ELSE {})

\* a client built for an mcp.run URL
Init ==
    /\ InitFields
    /\ url = U_mcp
    /\ built = Built("ok", {})

\* __init__ before self._validate_url()
InitUrl ==
    /\ InitFields
    /\ url = <<>>
    /\ built = Built("none", {})

Urls == UNION {[1..n -> UrlPieces] : n \in 0..MaxUrlLen}

\* MCPRunSSEClient(sse_url): self._validate_url() raises or returns
Construct(u) ==
    /\ built.result = "none"
    /\ url' = u
    /\ built' = IF UrlRaises(u) THEN Built("ValueError", {})
                ELSE Built("ok", Warnings(u))
    /\ UNCHANGED <<running, last_id, retry_delay, eventos_queue, unfinished,
                   wvars, avars, cvars, nlines, sawStop, attempts, block,
                   lastLine, slept, lastStatus, foundQueued>>

(***************************************************************************)
(* The worker thread: _sse_worker                                           *)
(***************************************************************************)
\* while self.running and retries < self.max_retries
\* mutant: one attempt too many
WhileCondOffByOne(w) == running /\ retries[w] <= max_retries

WhileCond(w) == running /\ retries[w] < max_retries

WhileCheck(w) ==
    /\ pc[w] = "while"
    /\ pc' = [pc EXCEPT ![w] = IF WhileCond(w) THEN "connect" ELSE "final"]
    /\ UNCHANGED <<running, last_id, retry_delay, eventos_queue, unfinished,
                   retries, acc, pending, lastReq, nlines,
                   avars, cvars>>

\* requests.get raises, or the status is not 200 (ConnectionError raised)
ConnectFails(w) ==
    /\ pc' = [pc EXCEPT ![w] = "except"]
    /\ UNCHANGED <<retries, acc>>

\* mutant: the accumulator outlives the connection
ConnectOkKeepsAcc(w) ==
    /\ pc' = [pc EXCEPT ![w] = "stream"]
    /\ retries' = [retries EXCEPT ![w] = 0]
    /\ acc' = acc

\* status 200: retries = 0 and the generator starts with fresh locals
ConnectOk(w) ==
    /\ pc' = [pc EXCEPT ![w] = "stream"]
    /\ retries' = [retries EXCEPT ![w] = 0]
    /\ acc' = [acc EXCEPT ![w] = AccInit]

\* headers are built from self.last_id, then requests.get(...)
\* requests.get raises a requests.RequestException
ConnectRaises(w) ==
    /\ pc[w] = "connect"
    /\ lastReq' = [lastReq EXCEPT ![w] = Headers(last_id)]
    /\ ConnectFails(w)
    /\ UNCHANGED <<running, last_id, retry_delay, eventos_queue, unfinished,
                   pending, nlines, avars, cvars>>

\* requests.get returns a response: if response.status_code != 200: raise
ConnectResponse(w, status) ==
    /\ pc[w] = "connect"
    /\ lastReq' = [lastReq EXCEPT ![w] = Headers(last_id)]
    /\ IF StatusOk(status) THEN ConnectOk(w) ELSE ConnectFails(w)
    /\ UNCHANGED <<running, last_id, retry_delay, eventos_queue, unfinished,
                   pending, nlines, avars, cvars>>

Connect(w) ==
    \/ ConnectRaises(w)
    \/ \E status \in StatusCodes : ConnectResponse(w, status)

\* iter_lines() hands over one line: lines 140-167
\* (an OverflowError of line 162 is caught neither at line 163 nor at line
\* 212: it ends the thread)
StreamLine(w, lines, bound) ==
    /\ pc[w] = "stream"
    /\ nlines < bound
    /\ \E line \in lines :
          IF EndsEvent(acc[w], line)
          THEN /\ last_id' = acc[w].event_id
               /\ pending' = [pending EXCEPT ![w] = Some(BuildEvent(acc[w]))]
               /\ pc' = [pc EXCEPT ![w] = "yielded"]
               /\ UNCHANGED <<acc, retry_delay>>
          ELSE IF RetryRaises(line)
          THEN /\ pc' = [pc EXCEPT ![w] = "crashed"]
               /\ UNCHANGED <<acc, retry_delay, last_id, pending>>
          ELSE /\ acc' = [acc EXCEPT ![w] = FeedLine(acc[w], line)]
               /\ retry_delay' = RetryAfter(retry_delay, line)
               /\ UNCHANGED <<last_id, pending, pc>>
    /\ nlines' = nlines + 1
    /\ UNCHANGED <<running, eventos_queue, unfinished, retries, lastReq, avars, cvars>>

\* iter_lines() hands over a line that completes no Evento, as a server's
\* keep-alive traffic does without end: the generator takes it at lines
\* 153-167 and yields nothing, so that _sse_worker does not get to run
StreamIdle(w, lines) ==
    /\ pc[w] = "stream"
    /\ \E line \in lines :
          /\ ~EndsEvent(acc[w], line)
          /\ ~RetryRaises(line)
          /\ acc' = [acc EXCEPT ![w] = FeedLine(acc[w], line)]
          /\ retry_delay' = RetryAfter(retry_delay, line)
    /\ UNCHANGED <<running, last_id, eventos_queue, unfinished, pending, pc,
                   retries, lastReq, nlines, avars, cvars>>

\* the body ends: the for loop and the with block are left without an
\* exception, and control is back at the while test
StreamEOF(w) ==
    /\ pc[w] = "stream"
    /\ pc' = [pc EXCEPT ![w] = "while"]
    /\ UNCHANGED <<running, last_id, retry_delay, eventos_queue, unfinished,
                   retries, acc, pending, lastReq,
                   nlines, avars, cvars>>

\* iter_lines() raises a requests.RequestException
StreamError(w) ==
    /\ pc[w] = "stream"
    /\ pc' = [pc EXCEPT ![w] = "except"]
    /\ UNCHANGED <<running, last_id, retry_delay, eventos_queue, unfinished,
                   retries, acc, pending, lastReq,
                   nlines, avars, cvars>>

\* if not self.running: break
LoopCheck(w) ==
    /\ pc[w] = "yielded"
    /\ IF running
       THEN /\ pc' = [pc EXCEPT ![w] = "put"]
            /\ UNCHANGED pending
       ELSE /\ pc' = [pc EXCEPT ![w] = "while"]
            /\ pending' = [pending EXCEPT ![w] = None]
    /\ UNCHANGED <<running, last_id, retry_delay, eventos_queue, unfinished,
                   retries, acc, lastReq, nlines, avars,
                   cvars>>

\* mutant: only event_data is reset after the yield
PutKeepsTypeAndId(w) ==
    /\ pc[w] = "put"
    /\ eventos_queue' = Append(eventos_queue, pending[w][1])
    /\ unfinished' = unfinished + 1
    /\ pending' = [pending EXCEPT ![w] = None]
    /\ acc' = [acc EXCEPT ![w].event_data = S_empty]
    /\ pc' = [pc EXCEPT ![w] = "stream"]
    /\ UNCHANGED <<running, last_id, retry_delay, retries, lastReq, nlines, avars, cvars>>

\* self.eventos_queue.put(evento); the generator resumes at lines 149-151
Put(w) ==
    /\ pc[w] = "put"
    /\ eventos_queue' = Append(eventos_queue, pending[w][1])
    /\ unfinished' = unfinished + 1
    /\ pending' = [pending EXCEPT ![w] = None]
    /\ acc' = [acc EXCEPT ![w] = AccInit]
    /\ pc' = [pc EXCEPT ![w] = "stream"]
    /\ UNCHANGED <<running, last_id, retry_delay, retries, lastReq, nlines, avars, cvars>>

\* except (requests.RequestException, ConnectionError): lines 213-220
Except(w) ==
    /\ pc[w] = "except"
    /\ IF ~running
       THEN /\ pc' = [pc EXCEPT ![w] = "final"]
            /\ UNCHANGED retries
       ELSE /\ retries' = [retries EXCEPT ![w] = retries[w] + 1]
            /\ pc' = [pc EXCEPT ![w] =
                        IF retries[w] + 1 < max_retries THEN "sleep"
                        ELSE "while"]
    /\ UNCHANGED <<running, last_id, retry_delay, eventos_queue, unfinished,
                   acc, pending, lastReq, nlines, avars,
                   cvars>>

\* time.sleep(self.retry_delay): ValueError for a negative value, which no
\* handler of _sse_worker catches
Sleep(w) ==
    /\ pc[w] = "sleep"
    /\ pc' = [pc EXCEPT ![w] = IF retry_delay < 0 THEN "crashed" ELSE "while"]
    /\ UNCHANGED <<running, last_id, retry_delay, eventos_queue, unfinished,
                   retries, acc, pending, lastReq,
                   nlines, avars, cvars>>

\* if self.running: self.running = False (lines 223-227)
Final(w) ==
    /\ pc[w] = "final"
    /\ running' = FALSE
    /\ pc' = [pc EXCEPT ![w] = "done"]
    /\ UNCHANGED <<last_id, retry_delay, eventos_queue, unfinished, retries,
                   acc, pending, lastReq, nlines,
                   avars, cvars>>

(***************************************************************************)
(* iniciar() and parar()                                                    *)
(***************************************************************************)
Unborn == {w \in Workers : pc[w] = "unborn"}
NextWorker == CHOOSE w \in Unborn : \A v \in Unborn : w <= v

\* threading.Thread(target=self._sse_worker).start(): retries = 0, then the
\* while test
SpawnWorker(w) ==
    /\ thread' = Some(w)
    /\ pc' = [pc EXCEPT ![w] = "while"]
    /\ retries' = [retries EXCEPT ![w] = 0]

\* mutant: no test of self.running
IniciarWithoutTest ==
    /\ app = "idle"
    /\ Unborn # {}
    /\ running' = TRUE
    /\ SpawnWorker(NextWorker)
    /\ ret' = "iniciar: started, True"
    /\ UNCHANGED <<last_id, retry_delay, eventos_queue, unfinished, acc,
                   pending, app, cons, nlines, lastReq, delivered>>

Iniciar ==
    /\ app = "idle"
    /\ IF running
       THEN /\ ret' = "iniciar: already running, True"
            /\ UNCHANGED <<running, thread, pc, retries>>
       ELSE /\ Unborn # {}
            /\ running' = TRUE
            /\ SpawnWorker(NextWorker)
            /\ ret' = "iniciar: started, True"
    /\ UNCHANGED <<last_id, retry_delay, eventos_queue, unfinished, acc,
                   pending, app, cons, nlines, lastReq, delivered>>

\* the first iniciar() of a client
IniciarFirst == Iniciar /\ thread = None

\* parar() up to the join
Parar ==
    /\ app = "idle"
    /\ IF ~running
       THEN /\ ret' = "parar: not running"
            /\ UNCHANGED <<running, app>>
       ELSE /\ running' = FALSE
            /\ IF thread # None /\ Alive(thread[1])
               THEN /\ app' = "joining"
                    /\ UNCHANGED ret
               ELSE /\ ret' = "parar: no join"
                    /\ UNCHANGED app
    /\ UNCHANGED <<last_id, retry_delay, eventos_queue, unfinished, thread,
                   wvars, cons, nlines, delivered>>

\* self._thread.join(timeout=2.0) returns: the thread has ended, or the
\* two seconds are over
\* mutant: join() without a timeout
JoinWithoutTimeout ==
    /\ app = "joining"
    /\ ~Alive(thread[1])
    /\ app' = "idle"
    /\ ret' = "parar: joined"
    /\ UNCHANGED <<running, last_id, retry_delay, eventos_queue, unfinished,
                   thread, wvars, cons, nlines, delivered>>

JoinReturns ==
    /\ app = "joining"
    /\ app' = "idle"
    /\ ret' = IF Alive(thread[1]) THEN "parar: join timed out"
               ELSE "parar: joined"
    /\ UNCHANGED <<running, last_id, retry_delay, eventos_queue, unfinished,
                   thread, wvars, cons, nlines, 
                   delivered>>

(***************************************************************************)
(* The consumer entry points                                                *)
(***************************************************************************)
\* evento = self.eventos_queue.get(...); callback(evento); task_done()
Dequeue ==
    /\ eventos_queue # <<>>
    /\ eventos_queue' = Tail(eventos_queue)
    /\ unfinished' = unfinished - 1

\* processar_eventos: the test of self.running, then the blocking get
\* mutant: the get is reached without the test of self.running
CallProcessarEventosUntested ==
    /\ cons.at = "idle"
    /\ \E wait \in {"none", "finite"} :
          cons' = [ConsIdle EXCEPT !.at = "one", !.wait = wait]
    /\ UNCHANGED <<running, last_id, retry_delay, eventos_queue, unfinished,
                   wvars, avars, nlines, delivered>>

CallProcessarEventos ==
    /\ cons.at = "idle"
    /\ IF ~running
       THEN cons' = Returned("processar_eventos: not running")
       ELSE \E wait \in {"none", "finite"} :
               cons' = [ConsIdle EXCEPT !.at = "one", !.wait = wait]
    /\ UNCHANGED <<running, last_id, retry_delay, eventos_queue, unfinished,
                   wvars, avars, nlines, delivered>>

\* mutant: task_done() is left out
ProcessarEventosGetNoTaskDone ==
    /\ cons.at = "one"
    /\ \/ /\ eventos_queue # <<>>
          /\ eventos_queue' = Tail(eventos_queue)
          /\ UNCHANGED unfinished
          /\ delivered' = Append(delivered, Head(eventos_queue))
          /\ cons' = Returned("processar_eventos: callback")
       \/ /\ eventos_queue = <<>>
          /\ cons.wait = "finite"
          /\ cons' = Returned("processar_eventos: empty")
          /\ UNCHANGED <<eventos_queue, unfinished, delivered>>
    /\ UNCHANGED <<running, last_id, retry_delay, wvars, avars, nlines>>

ProcessarEventosGet ==
    /\ cons.at = "one"
    /\ \/ /\ Dequeue
          /\ delivered' = Append(delivered, Head(eventos_queue))
          /\ cons' = Returned("processar_eventos: callback")
       \/ /\ eventos_queue = <<>>
          /\ cons.wait = "finite"
          /\ cons' = Returned("processar_eventos: empty")
          /\ UNCHANGED <<eventos_queue, unfinished, delivered>>
    /\ UNCHANGED <<running, last_id, retry_delay, wvars, avars, nlines>>

\* processar_eventos_loop: while self.running
CallProcessarEventosLoop ==
    /\ cons.at = "idle"
    /\ cons' = [ConsIdle EXCEPT !.at = "loop_test"]
    /\ UNCHANGED <<running, last_id, retry_delay, eventos_queue, unfinished,
                   wvars, avars, nlines, delivered>>

LoopTest ==
    /\ cons.at = "loop_test"
    /\ cons' = IF running THEN [cons EXCEPT !.at = "loop_get"]
               ELSE Returned("processar_eventos_loop: stopped")
    /\ UNCHANGED <<running, last_id, retry_delay, eventos_queue, unfinished,
                   wvars, avars, nlines, delivered>>

\* mutant: the loop ends when the queue is found empty
LoopGetEndsWhenEmpty ==
    /\ cons.at = "loop_get"
    /\ \/ /\ Dequeue
          /\ delivered' = Append(delivered, Head(eventos_queue))
          /\ cons' = [cons EXCEPT !.at = "loop_test"]
       \/ /\ eventos_queue = <<>>
          /\ cons' = Returned("processar_eventos_loop: stopped")
          /\ UNCHANGED <<eventos_queue, unfinished, delivered>>
    /\ UNCHANGED <<running, last_id, retry_delay, wvars, avars, nlines>>

LoopGet ==
    /\ cons.at = "loop_get"
    /\ \/ /\ Dequeue
          /\ delivered' = Append(delivered, Head(eventos_queue))
       \/ /\ eventos_queue = <<>>
          /\ UNCHANGED <<eventos_queue, unfinished, delivered>>
    /\ cons' = [cons EXCEPT !.at = "loop_test"]
    /\ UNCHANGED <<running, last_id, retry_delay, wvars, avars, nlines>>

\* receber_eventos(max_eventos, timeout)
\* mutant: a call puts the reconnection delay back to its default
CallReceberEventosResetsDelay ==
    /\ cons.at = "idle"
    /\ IF ~running
       THEN cons' = Returned("receber_eventos: not running")
       ELSE \E m \in 1..MaxBatch :
               cons' = [ConsIdle EXCEPT !.at = "batch_test", !.max = m]
    /\ retry_delay' = retry_delay_default * MsPerSec
    /\ UNCHANGED <<running, last_id, eventos_queue, unfinished,
                   wvars, avars, nlines, delivered>>

CallReceberEventos ==
    /\ cons.at = "idle"
    /\ IF ~running
       THEN cons' = Returned("receber_eventos: not running")
       ELSE \E m \in 1..MaxBatch :
               cons' = [ConsIdle EXCEPT !.at = "batch_test", !.max = m]
    /\ UNCHANGED <<running, last_id, retry_delay, eventos_queue, unfinished,
                   wvars, avars, nlines, delivered>>

\* while len(eventos) < max_eventos and tempo_restante > 0; the time left
\* can have run out once a get has returned
\* mutant: <= for <
BatchTestOneMore ==
    /\ cons.at = "batch_test"
    /\ \/ /\ Len(cons.eventos) <= cons.max
          /\ cons' = [cons EXCEPT !.at = "batch_get"]
          /\ UNCHANGED delivered
       \/ /\ Len(cons.eventos) = cons.max \/ Len(cons.eventos) > 0
          /\ delivered' = delivered \o cons.eventos
          /\ cons' = Returned("receber_eventos: list")
    /\ UNCHANGED <<running, last_id, retry_delay, eventos_queue, unfinished,
                   wvars, avars, nlines>>

BatchTest ==
    /\ cons.at = "batch_test"
    /\ \/ /\ Len(cons.eventos) < cons.max
          /\ cons' = [cons EXCEPT !.at = "batch_get"]
          /\ UNCHANGED delivered
       \/ /\ Len(cons.eventos) = cons.max \/ Len(cons.eventos) > 0
          /\ delivered' = delivered \o cons.eventos
          /\ cons' = Returned("receber_eventos: list")
    /\ UNCHANGED <<running, last_id, retry_delay, eventos_queue, unfinished,
                   wvars, avars, nlines>>

BatchGet ==
    /\ cons.at = "batch_get"
    /\ \/ /\ Dequeue
          /\ cons' = [cons EXCEPT !.at = "batch_test",
                                  !.eventos = Append(@, Head(eventos_queue))]
          /\ UNCHANGED delivered
       \/ /\ eventos_queue = <<>>
          /\ delivered' = delivered \o cons.eventos
          /\ cons' = Returned("receber_eventos: list")
          /\ UNCHANGED <<eventos_queue, unfinished>>
    /\ UNCHANGED <<running, last_id, retry_delay, wvars, avars, nlines>>

\* What a callback can raise: queue.Empty (as a callback that polls a queue
\* of its own does) or an exception of another class.
Exceptions == {"queue.Empty", "ValueError"}

\* callback(evento) raises exc in processar_eventos: the get of line 272
\* has taken the Evento and line 276 is not reached; the call is inside the
\* try of line 270, so that queue.Empty is caught at line 277 and any other
\* exception leaves the call
ProcessarEventosRaises(exc) ==
    /\ cons.at = "one"
    /\ eventos_queue # <<>>
    /\ eventos_queue' = Tail(eventos_queue)
    /\ delivered' = Append(delivered, Head(eventos_queue))
    /\ cons' = IF exc = "queue.Empty"
               THEN Returned("processar_eventos: empty")
               ELSE Returned("processar_eventos: raised")
    /\ UNCHANGED <<running, last_id, retry_delay, unfinished, wvars, avars,
                   nlines>>

\* callback(evento) raises exc in processar_eventos_loop: lines 291-300;
\* queue.Empty is caught at line 298 and the loop goes on, any other
\* exception leaves the while loop and the call
LoopRaises(exc) ==
    /\ cons.at = "loop_get"
    /\ eventos_queue # <<>>
    /\ eventos_queue' = Tail(eventos_queue)
    /\ delivered' = Append(delivered, Head(eventos_queue))
    /\ cons' = IF exc = "queue.Empty"
               THEN [cons EXCEPT !.at = "loop_test"]
               ELSE Returned("processar_eventos_loop: raised")
    /\ UNCHANGED <<running, last_id, retry_delay, unfinished, wvars, avars,
                   nlines>>

(***************************************************************************)
(* Observers: history variables, updated beside the step they watch         *)
(***************************************************************************)
\* the places where _sse_worker reads self.running inside its loop
ReadsRunning(w) == pc[w] \in {"while", "yielded", "except"}

ObserveStop(w) ==
    sawStop' = [sawStop EXCEPT ![w] = @ \/ (ReadsRunning(w) /\ ~running)]

CountRequest(w) ==
    attempts' = [attempts EXCEPT ![w] = IF pc[w] = "connect" THEN @ + 1 ELSE @]

ObserveLine(line) == lastLine' = Some(line)

ObserveStatus(opt) == lastStatus' = opt

ObserveSleep(w) ==
    slept' = [slept EXCEPT ![w] = IF pc[w] = "sleep" THEN Some(retry_delay) ELSE @]

\* foundQueued: how many Eventos were queued when a consumer entry point
\* last read running == False (line 266, 290 or 313)
ObserveCall ==
    foundQueued' =
        IF /\ ~running
           /\ cons' # cons
           /\ (cons.at = "idle" /\ cons'.at = "idle") \/ cons.at = "loop_test"
        THEN Some(Len(eventos_queue))
        ELSE foundQueued

\* block[w]: the lines of w's streams that no Evento has been yielded for
\* yet, with NewStream where a response with status 200 begins
NewStream == <<"<200>">>

ObserveBlock(w, line) == block' = [block EXCEPT ![w] = Append(@, line)]

ObserveResume(w) ==
    block' = [block EXCEPT ![w] =
                IF pc[w] = "put" THEN <<>>
                ELSE IF /\ pc[w] = "connect" /\ pc'[w] = "stream"
                        /\ @ # <<>> /\ @[Len(@)] # NewStream
                     THEN Append(@, NewStream)
                ELSE @]

(***************************************************************************)
(* Specifications                                                           *)
(***************************************************************************)
\* Worker threads against iniciar()/parar(), few kinds of line.
CoreStep(w) == ObserveStop(w) /\ UNCHANGED <<attempts, evars>>

Next ==
    \/ \E w \in Workers : WhileCheck(w) /\ CoreStep(w)
    \/ \E w \in Workers : Connect(w) /\ CoreStep(w)
    \/ \E w \in Workers : StreamLine(w, CoreLines, MaxLines) /\ CoreStep(w)
    \/ \E w \in Workers : StreamEOF(w) /\ CoreStep(w)
    \/ \E w \in Workers : StreamError(w) /\ CoreStep(w)
    \/ \E w \in Workers : LoopCheck(w) /\ CoreStep(w)
    \/ \E w \in Workers : Put(w) /\ CoreStep(w)
    \/ \E w \in Workers : Except(w) /\ CoreStep(w)
    \/ \E w \in Workers : Sleep(w) /\ CoreStep(w)
    \/ \E w \in Workers : Final(w) /\ CoreStep(w)
    \/ Iniciar /\ UNCHANGED ovars
    \/ Parar /\ UNCHANGED ovars
    \/ JoinReturns /\ UNCHANGED ovars

Spec == Init /\ [][Next]_vars

\* A client that is started and never stopped, more kinds of line.
NextStream ==
    \/ \E w \in Workers : WhileCheck(w) /\ UNCHANGED ovars
    \/ \E w \in Workers : Connect(w) /\ UNCHANGED ovars
    \/ \E w \in Workers :
          StreamLine(w, StreamLines, MaxStreamLines) /\ UNCHANGED ovars
    \/ \E w \in Workers : StreamEOF(w) /\ UNCHANGED ovars
    \/ \E w \in Workers : StreamError(w) /\ UNCHANGED ovars
    \/ \E w \in Workers : LoopCheck(w) /\ UNCHANGED ovars
    \/ \E w \in Workers : Put(w) /\ UNCHANGED ovars
    \/ \E w \in Workers : Except(w) /\ UNCHANGED ovars
    \/ \E w \in Workers : Sleep(w) /\ UNCHANGED ovars
    \/ \E w \in Workers : Final(w) /\ UNCHANGED ovars
    \/ Iniciar /\ UNCHANGED ovars

SpecStream == Init /\ [][NextStream]_vars

\* A server that refuses every connection, and a client that is started
\* and never stopped. Every thread that can run is scheduled in the end, and
\* time.sleep returns.
ConnectRefused(w) == Connect(w) /\ pc'[w] = "except"
FailStep(w) == CountRequest(w) /\ UNCHANGED <<sawStop, evars>>

RefusedWorker(w) ==
    \/ WhileCheck(w) /\ FailStep(w)
    \/ ConnectRefused(w) /\ FailStep(w)
    \/ Except(w) /\ FailStep(w)
    \/ Sleep(w) /\ FailStep(w)
    \/ Final(w) /\ FailStep(w)

NextFail ==
    \/ \E w \in Workers : WhileCheck(w) /\ FailStep(w)
    \/ \E w \in Workers : ConnectRefused(w) /\ FailStep(w)
    \/ \E w \in Workers : Except(w) /\ FailStep(w)
    \/ \E w \in Workers : Sleep(w) /\ FailStep(w)
    \/ \E w \in Workers : Final(w) /\ FailStep(w)
    \/ Iniciar /\ UNCHANGED ovars
    \/ CallProcessarEventos /\ UNCHANGED ovars
    \/ ProcessarEventosGet /\ UNCHANGED ovars
    \/ CallProcessarEventosLoop /\ UNCHANGED ovars
    \/ LoopTest /\ UNCHANGED ovars
    \/ LoopGet /\ UNCHANGED ovars
    \/ CallReceberEventos /\ UNCHANGED ovars
    \/ BatchTest /\ UNCHANGED ovars
    \/ BatchGet /\ UNCHANGED ovars

SpecFail ==
    Init /\ [][NextFail]_vars /\ \A w \in Workers : WF_vars(RefusedWorker(w))

\* The same server, and a client that is started and stopped at will. The
\* join of parar() is over after its two seconds at the latest.
NextStop ==
    \/ \E w \in Workers : WhileCheck(w) /\ FailStep(w)
    \/ \E w \in Workers : ConnectRefused(w) /\ FailStep(w)
    \/ \E w \in Workers : Except(w) /\ FailStep(w)
    \/ \E w \in Workers : Sleep(w) /\ FailStep(w)
    \/ \E w \in Workers : Final(w) /\ FailStep(w)
    \/ Iniciar /\ UNCHANGED ovars
    \/ Parar /\ UNCHANGED ovars
    \/ JoinReturns /\ UNCHANGED ovars

SpecStop ==
    Init /\ [][NextStop]_vars /\ WF_vars(JoinReturns /\ UNCHANGED ovars)

\* A client that is started once and stopped at will, against a server that
\* may keep a stream open with lines that complete no Evento. A thread that
\* can run is scheduled in the end; requests.get and the read of a line
\* return or raise within self.timeout; time.sleep returns.
IdleLines == {L_comment, L_id_1, L_id_2}

CancelWorker(w) ==
    \/ WhileCheck(w) /\ CoreStep(w)
    \/ Connect(w) /\ CoreStep(w)
    \/ StreamLine(w, CoreLines, MaxLines) /\ CoreStep(w)
    \/ StreamIdle(w, IdleLines) /\ CoreStep(w)
    \/ StreamEOF(w) /\ CoreStep(w)
    \/ StreamError(w) /\ CoreStep(w)
    \/ LoopCheck(w) /\ CoreStep(w)
    \/ Put(w) /\ CoreStep(w)
    \/ Except(w) /\ CoreStep(w)
    \/ Sleep(w) /\ CoreStep(w)
    \/ Final(w) /\ CoreStep(w)

NextCancel ==
    \/ \E w \in Workers : WhileCheck(w) /\ CoreStep(w)
    \/ \E w \in Workers : Connect(w) /\ CoreStep(w)
    \/ \E w \in Workers : StreamLine(w, CoreLines, MaxLines) /\ CoreStep(w)
    \/ \E w \in Workers : StreamIdle(w, IdleLines) /\ CoreStep(w)
    \/ \E w \in Workers : StreamEOF(w) /\ CoreStep(w)
    \/ \E w \in Workers : StreamError(w) /\ CoreStep(w)
    \/ \E w \in Workers : LoopCheck(w) /\ CoreStep(w)
    \/ \E w \in Workers : Put(w) /\ CoreStep(w)
    \/ \E w \in Workers : Except(w) /\ CoreStep(w)
    \/ \E w \in Workers : Sleep(w) /\ CoreStep(w)
    \/ \E w \in Workers : Final(w) /\ CoreStep(w)
    \/ IniciarFirst /\ UNCHANGED ovars
    \/ Parar /\ UNCHANGED ovars
    \/ JoinReturns /\ UNCHANGED ovars

SpecCancel ==
    /\ Init /\ [][NextCancel]_vars
    /\ \A w \in Workers : WF_vars(CancelWorker(w))
    /\ WF_vars(JoinReturns /\ UNCHANGED ovars)

\* A client that is started once and never stopped, against a server that
\* sends retry: lines.
RetryLines ==
    {L_blank, L_data_a, L_retry_5000, L_retry_7, L_retry_neg, L_retry_bad}

RetryStep(w) ==
    /\ ObserveSleep(w)
    /\ UNCHANGED <<sawStop, attempts, block, lastLine, lastStatus, url, built, foundQueued>>

NextRetry ==
    \/ \E w \in Workers : WhileCheck(w) /\ RetryStep(w)
    \/ \E w \in Workers :
          /\ ConnectRaises(w)
          /\ ObserveStatus(None)
          /\ UNCHANGED <<sawStop, attempts, block, lastLine, slept, url, built, foundQueued>>
    \/ \E w \in Workers : \E status \in StatusCodes :
          /\ ConnectResponse(w, status)
          /\ ObserveStatus(Some(status))
          /\ UNCHANGED <<sawStop, attempts, block, lastLine, slept, url, built, foundQueued>>
    \/ \E w \in Workers : \E line \in RetryLines :
          /\ StreamLine(w, {line}, MaxLines)
          /\ ObserveLine(line)
          /\ UNCHANGED <<sawStop, attempts, block, slept, lastStatus, url, built, foundQueued>>
    \/ \E w \in Workers : StreamEOF(w) /\ RetryStep(w)
    \/ \E w \in Workers : StreamError(w) /\ RetryStep(w)
    \/ \E w \in Workers : LoopCheck(w) /\ RetryStep(w)
    \/ \E w \in Workers : Put(w) /\ RetryStep(w)
    \/ \E w \in Workers : Except(w) /\ RetryStep(w)
    \/ \E w \in Workers : Sleep(w) /\ RetryStep(w)
    \/ \E w \in Workers : Final(w) /\ RetryStep(w)
    \/ IniciarFirst /\ UNCHANGED ovars

SpecRetry == Init /\ [][NextRetry]_vars

\* A client that is started once and stopped at will, with a consumer
\* thread that calls the three entry points. The consumer thread is
\* scheduled in the end and a get with a timeout returns; nothing makes the
\* server send an Evento.
ConsLines == {L_blank, L_data_a, L_data_b}

ConsumerStep ==
    \/ ProcessarEventosGet /\ UNCHANGED ovars
    \/ LoopTest /\ UNCHANGED ovars
    \/ LoopGet /\ UNCHANGED ovars
    \/ BatchTest /\ UNCHANGED ovars
    \/ BatchGet /\ UNCHANGED ovars

NextConsumer ==
    \/ \E w \in Workers : WhileCheck(w) /\ UNCHANGED ovars
    \/ \E w \in Workers : Connect(w) /\ UNCHANGED ovars
    \/ \E w \in Workers :
          StreamLine(w, ConsLines, MaxConsLines) /\ UNCHANGED ovars
    \/ \E w \in Workers : StreamEOF(w) /\ UNCHANGED ovars
    \/ \E w \in Workers : StreamError(w) /\ UNCHANGED ovars
    \/ \E w \in Workers : LoopCheck(w) /\ UNCHANGED ovars
    \/ \E w \in Workers : Put(w) /\ UNCHANGED ovars
    \/ \E w \in Workers : Except(w) /\ UNCHANGED ovars
    \/ \E w \in Workers : Sleep(w) /\ UNCHANGED ovars
    \/ \E w \in Workers : Final(w) /\ UNCHANGED ovars
    \/ IniciarFirst /\ UNCHANGED ovars
    \/ Parar /\ UNCHANGED ovars
    \/ JoinReturns /\ UNCHANGED ovars
    \/ CallProcessarEventos /\ UNCHANGED ovars
    \/ ProcessarEventosGet /\ UNCHANGED ovars
    \/ CallProcessarEventosLoop /\ UNCHANGED ovars
    \/ LoopTest /\ UNCHANGED ovars
    \/ LoopGet /\ UNCHANGED ovars
    \/ CallReceberEventos /\ UNCHANGED ovars
    \/ BatchTest /\ UNCHANGED ovars
    \/ BatchGet /\ UNCHANGED ovars

SpecConsumer == Init /\ [][NextConsumer]_vars /\ WF_vars(ConsumerStep)

\* The same client, with a consumer thread that runs processar_eventos_loop.
LoopStep ==
    \/ LoopTest /\ UNCHANGED ovars
    \/ LoopGet /\ UNCHANGED ovars

NextLoop ==
    \/ \E w \in Workers : WhileCheck(w) /\ UNCHANGED ovars
    \/ \E w \in Workers : Connect(w) /\ UNCHANGED ovars
    \/ \E w \in Workers :
          StreamLine(w, ConsLines, MaxConsLines) /\ UNCHANGED ovars
    \/ \E w \in Workers : StreamEOF(w) /\ UNCHANGED ovars
    \/ \E w \in Workers : StreamError(w) /\ UNCHANGED ovars
    \/ \E w \in Workers : LoopCheck(w) /\ UNCHANGED ovars
    \/ \E w \in Workers : Put(w) /\ UNCHANGED ovars
    \/ \E w \in Workers : Except(w) /\ UNCHANGED ovars
    \/ \E w \in Workers : Sleep(w) /\ UNCHANGED ovars
    \/ \E w \in Workers : Final(w) /\ UNCHANGED ovars
    \/ IniciarFirst /\ UNCHANGED ovars
    \/ Parar /\ UNCHANGED ovars
    \/ JoinReturns /\ UNCHANGED ovars
    \/ CallProcessarEventosLoop /\ UNCHANGED ovars
    \/ LoopTest /\ UNCHANGED ovars
    \/ LoopGet /\ UNCHANGED ovars

SpecLoop == Init /\ [][NextLoop]_vars /\ WF_vars(LoopStep)

\* A client that is started once and never stopped, against a server that
\* accepts every connection, sends event:, id: and data: lines and may end
\* or break a stream anywhere.
ParseLines == {L_blank, L_data_a, L_id_1, L_event_p}

ConnectAccepted(w) == Connect(w) /\ pc'[w] = "stream"

ParseStep(w) ==
    /\ ObserveResume(w)
    /\ UNCHANGED <<sawStop, attempts, lastLine, slept, lastStatus, url, built, foundQueued>>

NextParse ==
    \/ \E w \in Workers : WhileCheck(w) /\ ParseStep(w)
    \/ \E w \in Workers : ConnectAccepted(w) /\ ParseStep(w)
    \/ \E w \in Workers : \E line \in ParseLines :
          /\ StreamLine(w, {line}, MaxParseLines)
          /\ ObserveBlock(w, line)
          /\ UNCHANGED <<sawStop, attempts, lastLine, slept, lastStatus, url, built, foundQueued>>
    \/ \E w \in Workers : StreamEOF(w) /\ ParseStep(w)
    \/ \E w \in Workers : StreamError(w) /\ ParseStep(w)
    \/ \E w \in Workers : LoopCheck(w) /\ ParseStep(w)
    \/ \E w \in Workers : Put(w) /\ ParseStep(w)
    \/ \E w \in Workers : Except(w) /\ ParseStep(w)
    \/ \E w \in Workers : Sleep(w) /\ ParseStep(w)
    \/ IniciarFirst /\ UNCHANGED ovars

SpecParse == Init /\ [][NextParse]_vars

\* The constructor, called with every URL of up to MaxUrlLen pieces.
NextUrl == \E u \in Urls : Construct(u)

SpecUrl == InitUrl /\ [][NextUrl]_vars

\* A client that is started, stopped and started again once its worker has
\* ended, against a server that accepts every connection, with an
\* application thread that calls the three consumer entry points.
CallLines == {L_blank, L_data_a}

IniciarAgain == Iniciar /\ \A w \in Workers : ~Alive(w)

CallsStep ==
    /\ ObserveCall
    /\ UNCHANGED <<sawStop, attempts, block, lastLine, slept, lastStatus, url,
                   built>>

NextCalls ==
    \/ \E w \in Workers : WhileCheck(w) /\ CallsStep
    \/ \E w \in Workers : ConnectAccepted(w) /\ CallsStep
    \/ \E w \in Workers :
          StreamLine(w, CallLines, MaxCallLines) /\ CallsStep
    \/ \E w \in Workers : StreamEOF(w) /\ CallsStep
    \/ \E w \in Workers : StreamError(w) /\ CallsStep
    \/ \E w \in Workers : LoopCheck(w) /\ CallsStep
    \/ \E w \in Workers : Put(w) /\ CallsStep
    \/ \E w \in Workers : Except(w) /\ CallsStep
    \/ \E w \in Workers : Sleep(w) /\ CallsStep
    \/ \E w \in Workers : Final(w) /\ CallsStep
    \/ IniciarAgain /\ CallsStep
    \/ Parar /\ CallsStep
    \/ JoinReturns /\ CallsStep
    \/ CallProcessarEventos /\ CallsStep
    \/ ProcessarEventosGet /\ CallsStep
    \/ CallProcessarEventosLoop /\ CallsStep
    \/ LoopTest /\ CallsStep
    \/ LoopGet /\ CallsStep
    \/ CallReceberEventos /\ CallsStep
    \/ BatchTest /\ CallsStep
    \/ BatchGet /\ CallsStep

SpecCalls == Init /\ [][NextCalls]_vars

\* A client that is started once and never stopped, against a server that
\* may refuse a connection and sends data:, id: and retry: lines, with an
\* application thread that calls the three consumer entry points.
FrameLines == {L_blank, L_data_a, L_id_1, L_retry_5000}

NextFrame ==
    \/ \E w \in Workers : WhileCheck(w) /\ UNCHANGED ovars
    \/ \E w \in Workers : Connect(w) /\ UNCHANGED ovars
    \/ \E w \in Workers :
          StreamLine(w, FrameLines, MaxLines) /\ UNCHANGED ovars
    \/ \E w \in Workers : StreamEOF(w) /\ UNCHANGED ovars
    \/ \E w \in Workers : StreamError(w) /\ UNCHANGED ovars
    \/ \E w \in Workers : LoopCheck(w) /\ UNCHANGED ovars
    \/ \E w \in Workers : Put(w) /\ UNCHANGED ovars
    \/ \E w \in Workers : Except(w) /\ UNCHANGED ovars
    \/ \E w \in Workers : Sleep(w) /\ UNCHANGED ovars
    \/ \E w \in Workers : Final(w) /\ UNCHANGED ovars
    \/ IniciarFirst /\ UNCHANGED ovars
    \/ CallProcessarEventos /\ UNCHANGED ovars
    \/ ProcessarEventosGet /\ UNCHANGED ovars
    \/ CallProcessarEventosLoop /\ UNCHANGED ovars
    \/ LoopTest /\ UNCHANGED ovars
    \/ LoopGet /\ UNCHANGED ovars
    \/ CallReceberEventos /\ UNCHANGED ovars
    \/ BatchTest /\ UNCHANGED ovars
    \/ BatchGet /\ UNCHANGED ovars

SpecFrame == Init /\ [][NextFrame]_vars

\* A client that is started once and may be stopped, against a server that
\* accepts every connection, with an application thread that calls
\* processar_eventos and processar_eventos_loop with a callback that may
\* raise.
NextRaise ==
    \/ \E w \in Workers : WhileCheck(w) /\ UNCHANGED ovars
    \/ \E w \in Workers : ConnectAccepted(w) /\ UNCHANGED ovars
    \/ \E w \in Workers :
          StreamLine(w, CallLines, MaxConsLines) /\ UNCHANGED ovars
    \/ \E w \in Workers : LoopCheck(w) /\ UNCHANGED ovars
    \/ \E w \in Workers : Put(w) /\ UNCHANGED ovars
    \/ \E w \in Workers : Final(w) /\ UNCHANGED ovars
    \/ IniciarFirst /\ UNCHANGED ovars
    \/ Parar /\ UNCHANGED ovars
    \/ JoinReturns /\ UNCHANGED ovars
    \/ CallProcessarEventos /\ UNCHANGED ovars
    \/ ProcessarEventosGet /\ UNCHANGED ovars
    \/ \E exc \in Exceptions :
          ProcessarEventosRaises(exc) /\ UNCHANGED ovars
    \/ CallProcessarEventosLoop /\ UNCHANGED ovars
    \/ LoopTest /\ UNCHANGED ovars
    \/ LoopGet /\ UNCHANGED ovars
    \/ \E exc \in Exceptions : LoopRaises(exc) /\ UNCHANGED ovars

SpecRaise == Init /\ [][NextRaise]_vars

\* A client that is started once and never stopped, against a server that
\* accepts every connection and sends lines that are no well-formed field.
JunkLines ==
    {L_blank, L_data_sp, L_data_nocolon, L_comment, L_junk, L_retry_huge}

JunkStep ==
    UNCHANGED <<sawStop, attempts, block, lastLine, slept, lastStatus, url,
                built, foundQueued>>

NextJunk ==
    \/ \E w \in Workers : WhileCheck(w) /\ JunkStep
    \/ \E w \in Workers : ConnectAccepted(w) /\ JunkStep
    \/ \E w \in Workers : \E line \in JunkLines :
          /\ StreamLine(w, {line}, MaxLines)
          /\ ObserveLine(line)
          /\ UNCHANGED <<sawStop, attempts, block, slept, lastStatus, url,
                         built, foundQueued>>
    \/ \E w \in Workers : StreamEOF(w) /\ JunkStep
    \/ \E w \in Workers : LoopCheck(w) /\ JunkStep
    \/ \E w \in Workers : Put(w) /\ JunkStep
    \/ IniciarFirst /\ JunkStep

SpecJunk == Init /\ [][NextJunk]_vars

(***************************************************************************)
(* Properties                                                               *)
(***************************************************************************)
\* Every Evento that has left the worker, oldest first: handed to a
\* callback, held by receber_eventos, or still queued.
Handed == delivered \o cons.eventos \o eventos_queue

LastQueuedId == IF Handed = <<>> THEN None ELSE Handed[Len(Handed)].id

DoingIO(w) == pc[w] \in {"connect", "stream"}
Sends(w) == pc[w] = "connect" /\ pc'[w] # "connect"
Spawns == \E w \in Workers : pc[w] = "unborn" /\ pc'[w] # "unborn"

\* C1: every Evento the parser yields is appended to the Eventos handed on,
\* which change in no other way: none is dropped, none is reordered.
C1_InOrderNoneDropped ==
    [][/\ \/ Handed' = Handed
          \/ \E w \in Workers :
                pending[w] # None /\ Handed' = Append(Handed, pending[w][1])
       /\ \A w \in Workers :
             (pending[w] # None /\ pending'[w] = None)
                 => Handed' = Append(Handed, pending[w][1])]_vars

\* C2: whenever no worker is between yield and put, last_id is the id of
\* the last Evento that was put on the queue.
C2_LastIdIsLastQueued ==
    (\A w \in Workers : pending[w] = None) => last_id = LastQueuedId

\* C3: once last_id is set, no step resets it to None.
C3_LastIdNeverUnset == [][last_id # None => last_id' # None]_vars

ClaimedHeaders(lid) ==
    {<<"Accept", "text/event-stream">>, <<"Cache-Control", "no-cache">>}
        \cup (IF lid # None THEN {<<"Last-Event-ID", lid[1]>>} ELSE {})

\* C4 as claimed: a request carries Last-Event-ID exactly when last_id is
\* set (not None), with last_id as its value.
C4_HeaderWheneverSet ==
    [][\A w \in Workers : Sends(w) => lastReq'[w] = ClaimedHeaders(last_id)]_vars

AmendedHeaders(lid) ==
    {<<"Accept", "text/event-stream">>, <<"Cache-Control", "no-cache">>}
        \cup (IF lid # None /\ Len(lid[1]) > 0
              THEN {<<"Last-Event-ID", lid[1]>>} ELSE {})

\* C4 as amended: a request carries Accept and Cache-Control, and carries
\* Last-Event-ID exactly when last_id is a non-empty string, with the
\* last_id of that moment as its value.
C4_HeaderWhenNonEmpty ==
    [][\A w \in Workers : Sends(w) => lastReq'[w] = AmendedHeaders(last_id)]_vars

\* C4 witness: an Evento with id 1 was queued last, and a request sent
\* after it carries Last-Event-ID: 1
C4_Witness ==
    /\ LastQueuedId = Some(<<"1">>)
    /\ \E w \in Workers :
          /\ pc[w] \in {"stream", "except"}
          /\ acc[w] = AccInit
          /\ <<"Last-Event-ID", <<"1">>>> \in lastReq[w]

StripTrailingNL(d) ==
    IF Len(d) > 0 /\ d[Len(d)] = NL THEN SubSeq(d, 1, Len(d) - 1) ELSE d

\* C5: the data of a yielded Evento is the accumulated data lines without
\* the newline that ends the last of them.
C5_DataStripped ==
    \A w \in Workers :
        pending[w] # None
            => pending[w][1].data = StripTrailingNL(acc[w].event_data)

C6_Safety ==
    /\ eventos_queue = <<>>
    /\ \A w \in Workers :
          /\ attempts[w] <= max_retries
          /\ pc[w] = "done" => attempts[w] = max_retries
          /\ (pc[w] = "done" /\ thread = Some(w)) => ~running

\* C6: against a server that refuses every connection and with no parar(),
\* a worker never sends more than max_retries requests, it has sent exactly
\* max_retries when it ends, the client it leaves is not running, nothing
\* is queued, and every started worker ends.
C6_ExactlyMaxRetries ==
    /\ []C6_Safety
    /\ \A w \in Workers : (pc[w] # "unborn") ~> (pc[w] = "done")

\* C6 witness: the first worker has given up after max_retries requests
C6_Witness ==
    /\ pc[1] = "done"
    /\ attempts[1] = max_retries
    /\ retries[1] = max_retries
    /\ ~running

\* C7: at most one worker thread is connecting or reading a stream.
C7_OneWorker == Cardinality({w \in Workers : DoingIO(w)}) <= 1

\* C8: a worker is spawned only by a step that finds running false;
\* iniciar() on a running client changes nothing of the client; and in
\* every case it returns True at once.
C8_IniciarIdempotent ==
    [][/\ (Spawns \/ thread' # thread) => (~running /\ running')
       /\ (Iniciar /\ running)
             => /\ UNCHANGED <<running, thread, pc, retries, acc, pending,
                               last_id, retry_delay, eventos_queue,
                               unfinished>>
                /\ ret' = "iniciar: already running, True"
       /\ Iniciar
             => /\ app' = "idle"
                /\ ret' \in {"iniciar: already running, True",
                             "iniciar: started, True"}]_vars

\* C8 witness: iniciar() was called on a running client that has queued an Evento
C8_Witness ==
    /\ ret = "iniciar: already running, True"
    /\ running
    /\ eventos_queue # <<>>
    /\ last_id # None
    /\ thread # None /\ Alive(thread[1])

\* C9: parar() on a client that is not running changes nothing; on a running
\* client it clears running; and once it waits in join it returns, whatever
\* the worker does.
C9_PararReturns ==
    /\ [][/\ (Parar /\ ~running)
                => UNCHANGED <<running, thread, app, pc, retries, last_id,
                               retry_delay, eventos_queue>>
          /\ (Parar /\ running) => ~running'
          /\ (app = "joining" /\ app' = "idle") => ~running]_vars
    /\ (app = "joining") ~> (app = "idle")

\* C9 witness: parar() has returned through the join timeout, the worker still asleep
C9_Witness ==
    /\ app = "idle"
    /\ ret = "parar: join timed out"
    /\ ~running
    /\ thread # None /\ pc[thread[1]] = "sleep"

\* C10: a worker that has read running == False in its loop sends no
\* further request and puts no further Evento.
C10_NothingAfterStopSeen ==
    [][\A w \in Workers :
          sawStop[w]
              => /\ ~Sends(w)
                 /\ ~(pc[w] = "put" /\ pc'[w] # "put")]_vars

\* C11: with no later iniciar(), a worker that is alive while running is
\* False ends in the end, from connecting, from the stream and from its
\* sleep alike; and once it has read running == False it sends no further
\* request and starts no further sleep.
C11_WorkerEndsAfterStop ==
    /\ \A w \in Workers : (Alive(w) /\ ~running) ~> ~Alive(w)
    /\ [][\A w \in Workers :
             sawStop[w]
                 => /\ ~Sends(w)
                    /\ ~(pc[w] # "sleep" /\ pc'[w] = "sleep")]_vars

\* C12: no worker thread ends by an exception, and whenever a client has
\* been started and none of its worker threads is alive, running is False.
C12_FaultsAbsorbed ==
    /\ \A w \in Workers : pc[w] # "crashed"
    /\ (\A w \in Workers : ~Alive(w)) => ~running

\* retry_delay as C17 has it after a line
ClaimedDelay(rd, line) ==
    CASE line = L_retry_5000 -> 5000
      [] line = L_retry_7 -> 7
      [] line = L_retry_neg -> 0 - 1
      [] OTHER -> rd

InLoop == cons.at \in {"loop_test", "loop_get"}
InBatch == cons.at \in {"batch_test", "batch_get"}

\* C13: every call of processar_eventos and of receber_eventos returns,
\* and processar_eventos_loop returns once the client is not running.
C13_ConsumerCallsReturn ==
    /\ (cons.at = "one") ~> (cons.at = "idle")
    /\ InBatch ~> (cons.at = "idle")
    /\ (InLoop /\ ~running) ~> (cons.at = "idle")

C15_ReceberEventos ==
    /\ [][/\ (cons.at = "batch_get" /\ cons' # cons)
                => IF eventos_queue # <<>>
                   THEN /\ eventos_queue' = Tail(eventos_queue)
                        /\ cons'.eventos = Append(cons.eventos, Head(eventos_queue))
                        /\ cons'.at = "batch_test"
                        /\ delivered' = delivered
                   ELSE /\ eventos_queue' = eventos_queue
                        /\ delivered' = delivered \o cons.eventos
                        /\ cons' = Returned("receber_eventos: list")
          /\ (cons.at = "batch_test" /\ cons' # cons)
                => /\ eventos_queue' = eventos_queue
                   /\ \/ /\ cons'.at = "batch_get"
                         /\ cons'.eventos = cons.eventos
                         /\ delivered' = delivered
                      \/ /\ cons' = Returned("receber_eventos: list")
                         /\ delivered' = delivered \o cons.eventos]_vars
    /\ [](InBatch => Len(cons.eventos) <= cons.max)

\* C15 witness: receber_eventos(1) has returned the first of two queued
\* Eventos and left the second
C15_Witness ==
    /\ cons.ret = "receber_eventos: list"
    /\ Len(delivered) = 1
    /\ Len(eventos_queue) = 1
    /\ delivered[1].data # eventos_queue[1].data

LineKind(line) ==
    CASE line = L_event_p -> "event"
      [] line \in {L_id_1, L_id_2} -> "id"
      [] line \in {L_data_a, L_data_b} -> "data"
      [] OTHER -> "none"

LineValue(line) ==
    CASE line = L_event_p -> <<"p">>
      [] line = L_id_1 -> <<"1">>
      [] line = L_id_2 -> <<"2">>
      [] line = L_data_a -> <<"a">>
      [] line = L_data_b -> <<"b">>
      [] OTHER -> <<>>

\* the lines of b that came over the stream b ends in
RECURSIVE OwnBlock(_)
OwnBlock(b) ==
    IF b = <<>> \/ b[Len(b)] = NewStream THEN <<>>
    ELSE Append(OwnBlock(SubSeq(b, 1, Len(b) - 1)), b[Len(b)])

RECURSIVE LastValue(_, _)
LastValue(b, kind) ==
    IF b = <<>> THEN None
    ELSE IF LineKind(b[Len(b)]) = kind THEN Some(LineValue(b[Len(b)]))
    ELSE LastValue(SubSeq(b, 1, Len(b) - 1), kind)

RECURSIVE DataValues(_)
DataValues(b) ==
    IF b = <<>> THEN <<>>
    ELSE DataValues(SubSeq(b, 1, Len(b) - 1))
            \o (IF LineKind(b[Len(b)]) = "data" THEN LineValue(b[Len(b)])
                ELSE <<>>)

IsNotNL(c) == c # NL
WithoutNL(d) == SelectSeq(d, IsNotNL)

C19_OnlyWholeBlocks ==
    /\ [](\A w \in Workers :
            pending[w] # None
               => /\ block[w][Len(block[w])] = L_blank
                  /\ WithoutNL(pending[w][1].data) = DataValues(OwnBlock(block[w])))
    /\ [][eventos_queue' # eventos_queue
             => \E w \in Workers :
                   /\ pending[w] # None
                   /\ eventos_queue' = Append(eventos_queue, pending[w][1])]_vars

\* C19 witness: a stream ended after 'data: a' with no blank line, nothing
\* was queued, and the next stream's first Evento carries one a, not two
C19_Witness ==
    /\ pending[1] # None
    /\ eventos_queue = <<>>
    /\ block[1] = <<L_data_a, NewStream, L_data_a, L_blank>>
    /\ WithoutNL(pending[1][1].data) = <<"a">>

\* A URL as RFC 3986 reads it: scheme ":" "//" authority, the authority
\* ending at the next "/" or "?", and the host ending at the ":" of a port.
SchemeEnd(u) ==
    IF \E i \in 2..Len(u) : u[i] = ":" /\ \A j \in 1..(i - 1) : u[j] \in SchemePieces
    THEN CHOOSE i \in 2..Len(u) :
            u[i] = ":" /\ \A j \in 1..(i - 1) : u[j] \in SchemePieces
    ELSE 0

RECURSIVE UpTo(_, _)
UpTo(s, stops) ==
    IF s = <<>> \/ s[1] \in stops THEN <<>> ELSE <<s[1]>> \o UpTo(Tail(s), stops)

HostOf(u) ==
    LET k == SchemeEnd(u)
        afterScheme == SubSeq(u, k + 1, Len(u))
    IN IF Len(afterScheme) >= 2 /\ afterScheme[1] = "/" /\ afterScheme[2] = "/"
       THEN UpTo(SubSeq(afterScheme, 3, Len(afterScheme)), {"/", "?", ":"})
       ELSE <<>>

\* C20: the constructor raises exactly when the URL has no scheme or no
\* host, and a client it has built is not running, with an empty queue and
\* no worker thread.
C20_ConstructorValidates ==
    built.result # "none"
        => /\ (built.result = "ValueError")
                 <=> (SchemeEnd(url) = 0 \/ HostOf(url) = <<>>)
           /\ built.result = "ok"
                 => /\ ~running
                    /\ eventos_queue = <<>>
                    /\ thread = None
                    /\ \A w \in Workers : pc[w] = "unborn"

\* C21: the end of a stream is handled as a failure is: a worker leaves the
\* stream, other than by a yield, into the except clause only, where the
\* retries are counted and the sleep is taken; and a worker that has sent
\* a request before sends the next one only after a sleep.
C21_StreamEndIsAFailure ==
    [][\A w \in Workers :
          /\ (pc[w] = "stream" /\ pc'[w] \notin {"stream", "yielded"})
                => pc'[w] = "except"
          /\ (Sends(w) /\ lastReq[w] # {}) => slept[w] # None]_vars

\* C30: retry_delay is never negative, and time.sleep is never called with
\* a negative value.
C30_DelayNonNegative ==
    /\ retry_delay >= 0
    /\ \A w \in Workers : slept[w] # None => slept[w][1] >= 0

\* C22: a response with a status from 200 to 299 takes the worker into the
\* stream with retries = 0, and a response with any other status takes it
\* into the except clause.
C22_Any2xxIsSuccess ==
    [][\A w \in Workers : \A status \in StatusCodes :
          (Sends(w) /\ lastStatus' = Some(status))
              => IF status \in 200..299
                 THEN pc'[w] = "stream" /\ retries'[w] = 0
                 ELSE pc'[w] = "except"]_vars

\* C23: retries is between 0 and max_retries, a response that is accepted
\* sets it to 0, and a worker clears running on leaving its loop only with
\* retries at max_retries.
C23_RetriesCountFailures ==
    /\ [](\A w \in Workers : retries[w] \in 0..max_retries)
    /\ [][\A w \in Workers :
             /\ (pc[w] = "connect" /\ pc'[w] = "stream") => retries'[w] = 0
             /\ (pc[w] = "final" /\ pc'[w] = "done" /\ running)
                   => retries[w] = max_retries]_vars

\* C26: running becomes False only in parar() or in a worker that has used
\* up its retries.
C26_OnlyStopOrExhaustionClears ==
    [][(running /\ ~running')
          => \/ app = "idle" /\ app' = "joining"
             \/ app = "idle" /\ ret' = "parar: no join"
             \/ \E w \in Workers :
                   /\ pc[w] = "final" /\ pc'[w] = "done"
                   /\ retries[w] = max_retries]_vars

\* C27: a blank line that arrives while no data line has been taken since
\* the last Evento of the connection yields nothing and leaves the
\* accumulator as it is, so that while a stream is read the accumulator
\* holds the last event: and id: value the connection has sent since its
\* last Evento, blank lines in between or not.
C27_BlankLineWithoutData ==
    /\ [][\A w \in Workers :
             (/\ pc[w] = "stream"
              /\ block'[w] = Append(block[w], L_blank)
              /\ DataValues(OwnBlock(block[w])) = <<>>)
                => /\ acc'[w] = acc[w]
                   /\ pc'[w] = "stream"
                   /\ pending'[w] = None
                   /\ UNCHANGED <<eventos_queue, last_id>>]_vars
    /\ [](\A w \in Workers :
            pc[w] = "stream"
               => /\ acc[w].event_type =
                        (IF LastValue(OwnBlock(block[w]), "event") = None
                         THEN S_message
                         ELSE LastValue(OwnBlock(block[w]), "event")[1])
                  /\ acc[w].event_id = LastValue(OwnBlock(block[w]), "id"))

\* C27 witness: 'event: p', '', 'data: a', '' has yielded one Evento, of
\* type p, and nothing was queued before it
C27_Witness ==
    /\ block[1] = <<L_event_p, L_blank, L_data_a, L_blank>>
    /\ pending[1] # None
    /\ pending[1][1].event_type = <<"p">>
    /\ WithoutNL(pending[1][1].data) = <<"a">>
    /\ eventos_queue = <<>>

\* a step of a consumer entry point, and a step of a worker thread
ConsumerMoves == cons' # cons \/ delivered' # delivered

WorkerMoves ==
    \E w \in Workers :
        Alive(w) /\ (pc'[w] # pc[w] \/ (pc[w] = "stream" /\ nlines' # nlines))

\* C25: no step of processar_eventos, processar_eventos_loop or
\* receber_eventos changes running, last_id, retry_delay or a worker's
\* retries; last_id, retry_delay and retries change in steps of a worker
\* thread only.
C25_ConsumersReadOnly ==
    [][/\ ConsumerMoves
            => UNCHANGED <<running, last_id, retry_delay, retries>>
       /\ (last_id' # last_id \/ retry_delay' # retry_delay \/ retries' # retries)
            => WorkerMoves /\ ~ConsumerMoves]_vars

\* C25 witness: receber_eventos has returned an Evento with id 1 after the
\* worker recorded the id and counted a failed attempt
C25_Witness ==
    /\ cons.ret = "receber_eventos: list"
    /\ Len(delivered) = 1
    /\ delivered[1].id = Some(<<"1">>)
    /\ last_id = Some(<<"1">>)
    /\ retries[1] > 0
    /\ running

\* the consumer is inside a get() of the queue
InGet == cons.at \in {"one", "loop_get", "batch_get"}

CallbackRaises ==
    /\ cons.at \in {"one", "loop_get"}
    /\ eventos_queue # <<>>
    /\ eventos_queue' = Tail(eventos_queue)
    /\ unfinished' = unfinished

\* C29: when the callback raises, the exception leaves the call (and ends
\* the loop with it), the Evento is off the queue, task_done() has not been
\* called for it, and running, last_id, retry_delay, the worker's own state
\* and the rest of the queue are as before.
C29_CallbackRaises ==
    [][CallbackRaises
          => /\ cons' \in {Returned("processar_eventos: raised"),
                           Returned("processar_eventos_loop: raised")}
             /\ delivered' = Append(delivered, Head(eventos_queue))
             /\ UNCHANGED <<running, last_id, retry_delay, pc, retries, acc,
                            pending, thread>>]_vars

\* C24: no line makes the parser raise; the value of a field is what
\* follows the first colon, less one leading space; and a line that is no
\* event, data, id or retry field changes neither the accumulator nor what
\* is yielded or queued.
C24_ParserNeverRaises ==
    [][\A w \in Workers :
          (pc[w] = "stream" /\ nlines' # nlines)
             => /\ pc'[w] # "crashed"
                /\ lastLine' \in {Some(L_comment), Some(L_junk)}
                      => UNCHANGED <<acc, pending, pc, eventos_queue,
                                     last_id, retry_delay>>
                /\ lastLine' = Some(L_data_sp)
                      => acc'[w].event_data =
                            acc[w].event_data \o <<" ", "a", ":", "b", NL>>
                /\ lastLine' = Some(L_data_nocolon)
                      => acc'[w].event_data = acc[w].event_data \o <<NL>>]_vars
=============================================================================
